---------------------------- MODULE Spec2Model ----------------------------
(***************************************************************************)
(* The games router of src/routes/games.js: five Express handlers over the *)
(* "games" collection of the lowdb document store (req.app.db).            *)
(*                                                                         *)
(* A game is a JavaScript object; it is modelled as a function from the    *)
(* names of the fields it has to their values, so a missing field is a     *)
(* name outside its DOMAIN.  The collection is the array behind            *)
(* db.get("games"): a sequence of games in insertion order.  The store     *)
(* calls (find, assign, push, remove) are the lodash operations lowdb      *)
(* chains, on a store that does not throw: the catch branches of POST and   *)
(* PUT (status 500) are taken only on an exception of the store, and are   *)
(* outside the model.                                                      *)
(*                                                                         *)
(* Every handler is a synchronous function (no await, no callback), so one *)
(* handler call is one step.                                               *)
(***************************************************************************)
EXTENDS Integers, Sequences, FiniteSets, TLC

VARIABLES
    games,      \* the array behind db.get("games")
    issued,     \* the tokens nanoid has returned so far
    repeated,   \* nanoid has returned a token it had returned before
    last,       \* the request handled last and the response it got
    before,     \* for a GET /games/:id: the mutation handled directly before it,
                \* when that mutation was about the same id
    inflight,   \* requests that have arrived and are not dispatched yet
    log         \* the requests dispatched so far, in dispatch order

vars == <<games, issued, repeated, last, before, inflight, log>>

-----------------------------------------------------------------------------
(* Bounds of the model *)

MaxGames == 3       \* POST is not taken on a collection of this length
MaxArrivals == 3    \* requests of one concurrent batch

(* Program constants *)

idLength == 8

-----------------------------------------------------------------------------
(* Inputs *)

\* Strings nanoid can return: nanoid(size) returns a string of `size` characters.
TokenPool == {"dOBY0kFa", "V1StGXR8", "Uakgb", "x7Hq2LmN0"}

\* req.body: JSON objects over the fields of a game, with any of them missing.
\* The id a body carries is the one of the documented example game.
Bodies ==
    { [f \in {} |-> ""],
      [title |-> "Batman", genre |-> "Adventure"],
      [genre |-> "Action"],
      [title |-> "Batman"],
      [id |-> "dOBY0kFa", title |-> "Batman", genre |-> "Adventure"],
      [id |-> "dOBY0kFa"] }

BodyIds == {b["id"] : b \in {c \in Bodies : "id" \in DOMAIN c}}

NoBody == CHOOSE b \in Bodies : DOMAIN b = {}
NoId == ""

-----------------------------------------------------------------------------
(* nanoid and the lodash operations of the store *)

\* nanoid(size): some string of `size` characters.
Nanoid(size) == {t \in TokenPool : Len(t) = size}

\* The path ids of the model: every id a game can have.
Ids == Nanoid(idLength) \cup BodyIds

\* _.assign(object, source) on plain objects, and the object spread
\* { ...object, ...source }: the fields of source overwrite those of object.
Merge(object, source) ==
    [f \in DOMAIN object \cup DOMAIN source |->
        IF f \in DOMAIN source THEN source[f] ELSE object[f]]

\* { id: nanoid(idLength), ...req.body }
NewGameIdLast(token, body) == Merge(body, [id |-> token])
NewGame(token, body) == Merge([id |-> token], body)

\* _.matches({ id: id })
Matches(game, id) == "id" \in DOMAIN game /\ game["id"] = id

\* The index _.find stops at: the first game matching { id }, 0 when none does.
FindIndex(coll, id) ==
    LET hits == {i \in 1..Len(coll) : Matches(coll[i], id)}
    IN  IF hits = {} THEN 0 ELSE CHOOSE i \in hits : \A j \in hits : i <= j

\* .find({ id }).value(): the game found, as a sequence of at most one game
\* (<<>> is undefined).
Find(coll, id) ==
    IF FindIndex(coll, id) = 0 THEN <<>> ELSE <<coll[FindIndex(coll, id)]>>

\* .push(game): the array with game appended.
PushFront(coll, game) == <<game>> \o coll
PushStale(coll, game) == <<game>>
Push(coll, game) == Append(coll, game)

\* .find({ id }).assign(body): Object.assign on the game found, in place; with
\* no game found lodash assigns onto a fresh Object(undefined) and the array is
\* left as it is.
AssignUpsert(coll, id, body) ==
    IF FindIndex(coll, id) = 0
    THEN Append(coll, Merge([id |-> id], body))
    ELSE [coll EXCEPT ![FindIndex(coll, id)] = Merge(@, body)]
Assign(coll, id, body) ==
    IF FindIndex(coll, id) = 0
    THEN coll
    ELSE [coll EXCEPT ![FindIndex(coll, id)] = Merge(@, body)]

\* basePullAt(array, indexes): the array without the elements at the indexes.
RECURSIVE PullAt(_, _)
PullAt(coll, indexes) ==
    IF coll = <<>> THEN <<>>
    ELSE LET rest == PullAt(Tail(coll), {i - 1 : i \in indexes \ {1}})
         IN  IF 1 \in indexes THEN rest ELSE <<Head(coll)>> \o rest

\* .remove({ id }): _.remove collects the index of every matching element and
\* pulls them all.
RemoveFirst(coll, id) ==
    IF FindIndex(coll, id) = 0 THEN coll ELSE PullAt(coll, {FindIndex(coll, id)})
Remove(coll, id) ==
    PullAt(coll, {i \in 1..Len(coll) : Matches(coll[i], id)})

-----------------------------------------------------------------------------
(* Responses *)

\* A handled request and what its handler did with res: the status and body
\* the client gets (those of the first send: a response is sent once), and the
\* number of send calls (res.send, res.sendStatus) the handler made.  out is
\* the sequence of games in the body.  hits is the number of games that
\* matched the path id when the handler ran.
Response(op, id, body, token, hits, status, sends, out) ==
    [op |-> op, id |-> id, body |-> body, token |-> token, hits |-> hits,
     status |-> status, sends |-> sends, out |-> out]

NoRequest == Response("NONE", NoId, NoBody, NoId, 0, 0, 0, <<>>)

Hits(coll, id) == Cardinality({i \in 1..Len(coll) : Matches(coll[i], id)})

\* The id a handled request was about.
Subject(l) ==
    IF l.op = "POST" THEN l.out[1]["id"] ELSE l.id

-----------------------------------------------------------------------------
(* The handlers *)

\* router.get("/")
GetGames ==
    /\ last' = Response("LIST", NoId, NoBody, NoId, 0, 200, 1, games)
    /\ before' = NoRequest
    /\ UNCHANGED <<games, issued, repeated>>

\* router.get("/:id"): sendStatus(404) does not return, so res.send(game) is
\* called after it as well.
GetGameById(id) ==
    /\ last' = IF Find(games, id) = <<>>
               THEN Response("GET", id, NoBody, NoId, Hits(games, id), 404, 2, <<>>)
               ELSE Response("GET", id, NoBody, NoId, Hits(games, id), 200, 1,
                             Find(games, id))
    /\ before' = IF last.op \in {"POST", "PUT", "DELETE"} /\ Subject(last) = id
                 THEN last
                 ELSE NoRequest
    /\ UNCHANGED <<games, issued, repeated>>

\* router.post("/")
PostGame(body) ==
    /\ Len(games) < MaxGames
    /\ \E token \in Nanoid(idLength) :
         /\ issued' = issued \cup {token}
         /\ repeated' = (repeated \/ token \in issued)
         /\ games' = Push(games, NewGame(token, body))
         /\ last' = Response("POST", NoId, body, token, 0, 200, 1,
                             <<NewGame(token, body)>>)
    /\ before' = NoRequest

\* router.put("/:id"): the body sent is the lodash wrapper of a second find,
\* which serialises (toJSON) to the game found.
PutGame(id, body) ==
    /\ games' = Assign(games, id, body)
    /\ last' = Response("PUT", id, body, NoId, Hits(games, id), 200, 1,
                        Find(Assign(games, id, body), id))
    /\ before' = NoRequest
    /\ UNCHANGED <<issued, repeated>>

\* router.delete("/:id")
DeleteGame(id) ==
    /\ games' = Remove(games, id)
    /\ last' = Response("DELETE", id, NoBody, NoId, Hits(games, id), 200, 1, <<>>)
    /\ before' = NoRequest
    /\ UNCHANGED <<issued, repeated>>

-----------------------------------------------------------------------------
(* Requests handled one after the other *)

Init ==
    /\ games = <<>>
    /\ issued = {}
    /\ repeated = FALSE
    /\ last = NoRequest
    /\ before = NoRequest
    /\ inflight = {}
    /\ log = <<>>

Next ==
    \/ GetGames /\ UNCHANGED <<inflight, log>>
    \/ \E id \in Ids : GetGameById(id) /\ UNCHANGED <<inflight, log>>
    \/ \E body \in Bodies : PostGame(body) /\ UNCHANGED <<inflight, log>>
    \/ \E id \in Ids, body \in Bodies :
         PutGame(id, body) /\ UNCHANGED <<inflight, log>>
    \/ \E id \in Ids : DeleteGame(id) /\ UNCHANGED <<inflight, log>>

Spec == Init /\ [][Next]_vars

-----------------------------------------------------------------------------
(* Requests in flight together: a request arrives, and the arrived requests  *)
(* are dispatched one at a time in any order; a handler runs to its end      *)
(* before the next is dispatched.                                            *)

Request(op, id, body) == [op |-> op, id |-> id, body |-> body]

ConcRequests ==
    { Request("POST", NoId, [title |-> "Batman", genre |-> "Adventure"]),
      Request("POST", NoId, [id |-> "dOBY0kFa"]),
      Request("POST", NoId, [id |-> "batman01", title |-> "Batman"]),
      Request("PUT", "dOBY0kFa", [genre |-> "Action"]),
      Request("DELETE", "dOBY0kFa", NoBody),
      Request("GET", "dOBY0kFa", NoBody),
      Request("LIST", NoId, NoBody) }

Arrived == Len(log) + Cardinality(inflight)

Arrive(req) ==
    /\ Arrived < MaxArrivals
    /\ inflight' = inflight \cup {[n |-> Arrived + 1, req |-> req]}
    /\ UNCHANGED <<games, issued, repeated, last, before, log>>

Handle(req) ==
    \/ req.op = "LIST" /\ GetGames
    \/ req.op = "GET" /\ GetGameById(req.id)
    \/ req.op = "POST" /\ PostGame(req.body)
    \/ req.op = "PUT" /\ PutGame(req.id, req.body)
    \/ req.op = "DELETE" /\ DeleteGame(req.id)

Dispatch(e) ==
    /\ Handle(e.req)
    /\ inflight' = inflight \ {e}
    /\ log' = Append(log, [n |-> e.n, done |-> last'])

NextConcurrent ==
    \/ \E req \in ConcRequests : Arrive(req)
    \/ \E e \in inflight : Dispatch(e)

SpecConcurrent == Init /\ [][NextConcurrent]_vars

-----------------------------------------------------------------------------
(* Properties *)

Range(seq) == {seq[i] : i \in 1..Len(seq)}

\* The games of coll whose id is not id, in their order.
Others(coll, id) == SelectSeq(coll, LAMBDA g : ~Matches(g, id))

UniqueIds(coll) ==
    \A i, j \in 1..Len(coll) : coll[i]["id"] = coll[j]["id"] => i = j

\* C1: a POST whose body has no id field is answered 200 with one game, whose
\* id is the token nanoid returned for this request (a string of idLength
\* characters) and whose other fields are exactly those of the body; that game
\* is appended as the last element of the collection and the games before it
\* are unchanged.
C1_CreateAppendsGeneratedId ==
    [][ (last'.op = "POST" /\ "id" \notin DOMAIN last'.body) =>
          /\ last'.status = 200
          /\ last'.sends = 1
          /\ Len(last'.out) = 1
          /\ last'.out[1]["id"] = last'.token
          /\ last'.token \in issued'
          /\ Len(last'.token) = idLength
          /\ DOMAIN last'.out[1] = {"id"} \cup DOMAIN last'.body
          /\ \A f \in DOMAIN last'.body : last'.out[1][f] = last'.body[f]
          /\ Len(games') = Len(games) + 1
          /\ games'[Len(games')] = last'.out[1]
          /\ SubSeq(games', 1, Len(games)) = games ]_vars

\* A POST without an id field, with a title and a genre, was handled on a
\* collection that already held two games.
C1_Witness ==
    /\ last.op = "POST"
    /\ DOMAIN last.body = {"title", "genre"}
    /\ Len(games) = 3
    /\ games[3] = last.out[1]
    /\ games[3]["id"] = last.token

\* C2: a POST whose body has an id field stores and returns a game with the
\* id of the body, not the generated token, whatever ids the collection holds.
C2_BodyIdOverridesToken ==
    (last.op = "POST" /\ "id" \in DOMAIN last.body) =>
        /\ last.status = 200
        /\ Len(last.out) = 1
        /\ last.out[1]["id"] = last.body["id"]
        /\ (last.token # last.body["id"] => last.out[1]["id"] # last.token)
        /\ games[Len(games)] = last.out[1]

\* A POST with an id field was handled while a game with that id was already
\* in the collection, and nanoid had returned another token.
C2_Witness ==
    /\ last.op = "POST"
    /\ "id" \in DOMAIN last.body
    /\ last.token # last.body["id"]
    /\ Len(games) >= 2
    /\ games[Len(games)]["id"] = last.body["id"]
    /\ games[1]["id"] = last.body["id"]

\* C3: a GET /games/X handled directly after the POST that returned a game
\* with id X is answered 200 with the game the POST returned (as long as
\* nanoid has not returned a token twice).
C3_GetAfterPostReturnsCreated ==
    (~repeated /\ last.op = "GET" /\ before.op = "POST") =>
        /\ last.status = 200
        /\ last.out = before.out

\* C4: DELETE /games/X leaves no game with id X and keeps every game with
\* another id, in the order they had; a GET /games/X handled directly after
\* it is answered 404.
C4_DeleteThenGetIs404 ==
    [][ /\ last'.op = "DELETE" =>
              /\ last'.status = 200
              /\ \A i \in 1..Len(games') : ~Matches(games'[i], last'.id)
              /\ games' = Others(games, last'.id)
        /\ (last'.op = "GET" /\ before'.op = "DELETE") =>
              /\ last'.status = 404
              /\ last'.out = <<>> ]_vars

\* A GET was answered 404 directly after a DELETE of its id that removed
\* several games sharing the id and left another game in the collection.
C4_Witness ==
    /\ last.op = "GET"
    /\ before.op = "DELETE"
    /\ before.hits >= 2
    /\ last.status = 404
    /\ games # <<>>

\* The effect of PUT /games/X on the collection when a game matches X: the
\* first match gets the fields of the body, keeps its other fields, and
\* nothing else changes.
PutMergesFirstMatch ==
    (last'.op = "PUT" /\ FindIndex(games, last'.id) # 0) =>
        LET i == FindIndex(games, last'.id) IN
        /\ Len(games') = Len(games)
        /\ \A j \in 1..Len(games) : j # i => games'[j] = games[j]
        /\ DOMAIN games'[i] = DOMAIN games[i] \cup DOMAIN last'.body
        /\ \A f \in DOMAIN last'.body : games'[i][f] = last'.body[f]
        /\ \A f \in DOMAIN games[i] \ DOMAIN last'.body : games'[i][f] = games[i][f]

\* The frame part of C5 alone, which the code satisfies.
PutFrame == [][PutMergesFirstMatch]_vars

\* C5: PUT /games/X with a game matching X is a shallow merge on that game
\* only, and a GET /games/X handled directly after it is answered 200 with a
\* game that shows every field of the body.
C5_PutMergesAndGetShowsIt ==
    [][ /\ PutMergesFirstMatch
        /\ (last'.op = "GET" /\ before'.op = "PUT" /\ before'.hits > 0) =>
              /\ last'.status = 200
              /\ Len(last'.out) = 1
              /\ \A f \in DOMAIN before'.body :
                    last'.out[1][f] = before'.body[f] ]_vars

C7_GetSendsOnce ==
    [][ last'.op = "GET" =>
          /\ games' = games
          /\ last'.sends = 1
          /\ FindIndex(games, last'.id) # 0 =>
                (last'.status = 200
                    /\ last'.out = <<games[FindIndex(games, last'.id)]>>)
          /\ FindIndex(games, last'.id) = 0 =>
                (last'.status = 404 /\ last'.out = <<>>) ]_vars

\* C8: a game keeps its id as long as it is in the collection: a step other
\* than a DELETE (which moves games to earlier positions) leaves the id of
\* every game where it was.
C8_IdImmutable ==
    [][ last'.op # "DELETE" =>
          \A i \in 1..Len(games) :
              i <= Len(games') /\ games'[i]["id"] = games[i]["id"] ]_vars

\* C9: as long as nanoid has not returned a token twice, no two games of the
\* collection have the same id.
C9_IdsUnique ==
    ~repeated => UniqueIds(games)

\* C10: no update is lost whatever the order in which the arrived requests are
\* dispatched: the game a POST created is in the collection unless a request
\* dispatched after it addressed its id (a DELETE or a PUT), and when only
\* POSTs were dispatched the collection holds one game per POST, in dispatch
\* order.
Created(k) == log[k].done.out[1]

C10_NoLostUpdate ==
    /\ \A k \in 1..Len(log) :
          (/\ log[k].done.op = "POST"
           /\ \A m \in (k + 1)..Len(log) :
                 ~(/\ log[m].done.op \in {"PUT", "DELETE"}
                   /\ log[m].done.id = Created(k)["id"]))
          => Created(k) \in Range(games)
    /\ (\A k \in 1..Len(log) : log[k].done.op = "POST") =>
          /\ Len(games) = Len(log)
          /\ \A k \in 1..Len(log) : games[k] = Created(k)

\* Three POSTs were in flight together and were dispatched in another order
\* than they arrived in, with different ids; the collection holds the three
\* games.
C10_Witness ==
    /\ Len(log) = 3
    /\ inflight = {}
    /\ \A k \in 1..3 : log[k].done.op = "POST"
    /\ log[1].n = 3
    /\ UniqueIds(games)
    /\ Len(games) = 3

=============================================================================
